---- MODULE Spec2Model ----
(***************************************************************************)
(* Model of the daneel paper build scripts (src/scripts/*.py):             *)
(*   - the diagram block extractor (extract_mermaid_blocks),               *)
(*   - the replace loops of the four build scripts (forward, with a        *)
(*     running offset) and of patch-paper-tex (end to beginning),          *)
(*   - the PlantUML transport codec (plantuml_encode),                     *)
(*   - preprocess_content with its stripping steps and wrap_bare_urls.     *)
(*                                                                         *)
(* A text buffer is a sequence of symbols.  A symbol is one character,     *)
(* except that the literal "mermaid\n" of the fence opener and the fixed   *)
(* pieces of the generated image reference are one symbol each; offsets    *)
(* and lengths are counted in symbols.  Offsets are 0-based and spans are  *)
(* half open, as in Python.                                                *)
(***************************************************************************)
EXTENDS Integers, Sequences, FiniteSets, TLC

VARIABLES
    variant,            \* which script runs: "ascii", "arxiv", "plantuml", "mermaid", "patch"
    original,           \* the text of the file as read (never changes)
    content,            \* main(): content
    diagrams,           \* the script's table: DIAGRAMS / DIAGRAM_TITLES / diagrams
    matches,            \* main(): matches, a sequence of [start, end]
    processed_content,  \* main(): processed_content
    offset,             \* main(): offset
    i,                  \* main(): the loop index of enumerate(...)
    rendered,           \* how render_plantuml / render_mermaid ended, per block
    applied,            \* the spans spliced so far, in the order they were spliced
    pc,                 \* position of main(): "read", "loop", "done", "aborted", or "idle"
    text,               \* plantuml_encode(): text, as code points
    compressed,         \* plantuml_encode(): compressed, a sequence of bytes
    result,             \* plantuml_encode(): result, a sequence of alphabet characters
    ei,                 \* plantuml_encode(): i
    epc,                \* position of plantuml_encode(): "compress", "loop", "done", "error", "idle"
    einput,             \* what the run of the codec started from: "text", "bytes", or "none"
    script,             \* the script whose preprocess_content runs, or "none"
    pre_input,          \* preprocess_content(): the argument content
    pre_prev,           \* preprocess_content(): content before the statement last executed
    pre_content,        \* preprocess_content(): content
    ppc                 \* position of preprocess_content(): "title", "author", "front",
                        \* "abstract", "wrap", "done", or "idle"

splice_vars == <<variant, original, content, diagrams, matches, processed_content,
                 offset, i, rendered, applied, pc>>
codec_vars == <<text, compressed, result, ei, epc, einput>>
pre_vars == <<script, pre_input, pre_prev, pre_content, ppc>>
vars == <<variant, original, content, diagrams, matches, processed_content,
          offset, i, rendered, applied, pc, text, compressed, result, ei, epc, einput,
          script, pre_input, pre_prev, pre_content, ppc>>

(***************************************************************************)
(* Bounds of the model.                                                    *)
(***************************************************************************)
MaxParts == 3       \* parts a generated document is concatenated from
MaxTable == 2       \* entries of the script's diagram table
MaxTextLen == 3     \* code points of a diagram source handed to plantuml_encode
MaxBytes == 4       \* bytes of a compressed sequence handed to the mapping loop
MaxFrontParts == 4  \* parts of a generated top of a paper
MaxSectionParts == 4 \* parts of a generated run of sections
MaxUrlParts == 3    \* parts of a generated text with URLs

(***************************************************************************)
(* Sequences and Python slicing.                                           *)
(***************************************************************************)
Min(a, b) == IF a < b THEN a ELSE b
Max(a, b) == IF a > b THEN a ELSE b

RECURSIVE Flatten(_)
Flatten(ss) == IF ss = <<>> THEN <<>> ELSE Head(ss) \o Flatten(Tail(ss))

SeqsUpTo(S, n) == UNION { [1..k -> S] : k \in 0..n }

\* A slice bound as Python normalises it: negative counts from the end, then clamped.
PyIndex(s, x) == IF x < 0 THEN Max(0, Len(s) + x) ELSE Min(x, Len(s))

\* s[a:b]
PySlice(s, a, b) == SubSeq(s, PyIndex(s, a) + 1, PyIndex(s, b))

\* s[:b]
PyHead(s, b) == PySlice(s, 0, b)

\* s[a:]
PyTail(s, a) == PySlice(s, a, Len(s))

(***************************************************************************)
(* extract_mermaid_blocks: re.finditer over content with the pattern       *)
(* opener, lazy any-text group, closing fence (re.DOTALL).                 *)
(***************************************************************************)
\* "tick" is the backtick character
Fence == <<"tick", "tick", "tick">>
Opener == Fence \o <<"mermaid\n">>

\* the word w stands at 0-based position p of s
IsAt(s, p, w) ==
    /\ p >= 0
    /\ p + Len(w) <= Len(s)
    /\ SubSeq(s, p + 1, p + Len(w)) = w

\* mutant of NearestFence: a greedy group, closed by the last fence
NearestFence_Farthest(s, q) ==
    LET cs == { c \in q..(Len(s) - Len(Fence)) : IsAt(s, c, Fence) }
    IN  IF cs = {} THEN -1 ELSE CHOOSE c \in cs : \A d \in cs : c >= d

\* the lazy group and the closer from position q: the position of the nearest closing fence, or -1
NearestFence(s, q) ==
    LET cs == { c \in q..(Len(s) - Len(Fence)) : IsAt(s, c, Fence) }
    IN  IF cs = {} THEN -1 ELSE CHOOSE c \in cs : \A d \in cs : c <= d

\* the pattern matches at p: the opener stands at p and a fence closes it
MatchesAt(s, p) ==
    /\ IsAt(s, p, Opener)
    /\ NearestFence(s, p + Len(Opener)) >= 0

MatchEnd(s, p) == NearestFence(s, p + Len(Opener)) + Len(Fence)

\* mutant of FindAll: the scan resumes one symbol after the start of a match
RECURSIVE FindAll_Overlapping(_, _)
FindAll_Overlapping(s, pos) ==
    LET ps == { p \in pos..Len(s) : MatchesAt(s, p) }
    IN  IF ps = {} THEN <<>>
        ELSE LET p == CHOOSE x \in ps : \A y \in ps : x <= y
             IN  <<[start |-> p, end |-> MatchEnd(s, p)]>> \o FindAll_Overlapping(s, p + 1)

\* finditer from pos: leftmost match, then resume at its end
RECURSIVE FindAll(_, _)
FindAll(s, pos) ==
    LET ps == { p \in pos..Len(s) : MatchesAt(s, p) }
    IN  IF ps = {} THEN <<>>
        ELSE LET p == CHOOSE x \in ps : \A y \in ps : x <= y
             IN  <<[start |-> p, end |-> MatchEnd(s, p)]>> \o FindAll(s, MatchEnd(s, p))

extract_mermaid_blocks(s) == FindAll(s, 0)

\* match.group(0)
BlockText(s, m) == PySlice(s, m.start, m.end)

(***************************************************************************)
(* The replace loops of the build scripts.                                 *)
(***************************************************************************)
\* mutant of Spliced: the tail is taken from start, so the block is kept
Spliced_Insert(buf, start, end, new) == PyHead(buf, start) \o new \o PyTail(buf, start)

\* mutant of Spliced: the tail is taken one symbol after the end of the block
Spliced_SkipOne(buf, start, end, new) == PyHead(buf, start) \o new \o PyTail(buf, end + 1)

\* processed_content[:start] + new + processed_content[end:]
Spliced(buf, start, end, new) == PyHead(buf, start) \o new \o PyTail(buf, end)

\* mutant of NewOffset: the offset is not advanced by the length delta
NewOffset_Stale(off, new, match) == off

\* offset += len(new) - (match.end() - match.start())
NewOffset(off, new, match) == off + Len(new) - (match.end - match.start)

\* mutant of RemovedOffset: the offset is not moved by a removed block
RemovedOffset_Kept(off, match) == off

\* offset -= (match.end() - match.start())
RemovedOffset(off, match) == off - (match.end - match.start)

\* str(n) of an f-string, n >= 0, as decimal digit characters
Digit(d) == CASE d = 0 -> "0" [] d = 1 -> "1" [] d = 2 -> "2" [] d = 3 -> "3"
              [] d = 4 -> "4" [] d = 5 -> "5" [] d = 6 -> "6" [] d = 7 -> "7"
              [] d = 8 -> "8" [] d = 9 -> "9"

RECURSIVE Str(_)
Str(n) == IF n < 10 THEN <<Digit(n)>> ELSE Str(n \div 10) \o <<Digit(n % 10)>>

\* mutant of PngFilename: the file is numbered from 0, like the loop index
PngFilename_ZeroBased(diagram_num) == <<"diagram_">> \o Str(diagram_num - 1) \o <<".png">>

\* png_filename = f'diagram_{diagram_num}.png'
PngFilename(diagram_num) == <<"diagram_">> \o Str(diagram_num) \o <<".png">>

\* img_ref = f'![{title}](diagrams/{png_filename}){{width=85%}}'
ImgRef(title, png_filename) ==
    <<"![">> \o title \o <<"](diagrams/">> \o png_filename \o <<"){width=85%}">>

\* '[Diagram placeholder]'
Placeholder == <<"[Diagram placeholder]">>

\* caption = DIAGRAM_TITLES[i] if i < len(DIAGRAM_TITLES) else f'Diagram {diagram_num}'
Caption(titles, idx) ==
    IF idx < Len(titles) THEN titles[idx + 1] ELSE <<"Diagram ">> \o Str(idx + 1)

\* matches = extract_mermaid_blocks(content); processed_content = content; offset = 0
Extract ==
    /\ pc = "read"
    /\ variant \in {"ascii", "arxiv", "plantuml", "mermaid"}
    /\ matches' = extract_mermaid_blocks(content)
    /\ processed_content' = content
    /\ offset' = 0
    /\ i' = 0
    /\ pc' = "loop"
    /\ UNCHANGED <<variant, original, content, diagrams, rendered, applied>>
    /\ UNCHANGED codec_vars
    /\ UNCHANGED pre_vars

\* one iteration of the loop of build-paper-ascii.py
ReplaceAscii ==
    /\ pc = "loop"
    /\ variant = "ascii"
    /\ i < Len(matches)
    /\ LET match == matches[i + 1]
           start == match.start + offset
           end == match.end + offset
       IN  IF i < Len(diagrams)
           THEN /\ processed_content' = Spliced(processed_content, start, end, diagrams[i + 1])
                /\ offset' = NewOffset(offset, diagrams[i + 1], match)
           ELSE /\ processed_content' = Spliced(processed_content, start, end, <<>>)
                /\ offset' = RemovedOffset(offset, match)
    /\ rendered' = Append(rendered, "none")
    /\ applied' = Append(applied, matches[i + 1])
    /\ i' = i + 1
    /\ UNCHANGED <<variant, original, content, diagrams, matches, pc>>
    /\ UNCHANGED codec_vars
    /\ UNCHANGED pre_vars

\* one iteration of the loop of build-arxiv-package.py
ReplaceArxiv ==
    /\ pc = "loop"
    /\ variant = "arxiv"
    /\ i < Len(matches)
    /\ LET match == matches[i + 1]
           start == match.start + offset
           end == match.end + offset
       IN  IF i < Len(diagrams)
           THEN /\ processed_content' = Spliced(processed_content, start, end, diagrams[i + 1])
                /\ offset' = NewOffset(offset, diagrams[i + 1], match)
           ELSE /\ processed_content' = Spliced(processed_content, start, end, <<>>)
                /\ offset' = RemovedOffset(offset, match)
    /\ rendered' = Append(rendered, "none")
    /\ applied' = Append(applied, matches[i + 1])
    /\ i' = i + 1
    /\ UNCHANGED <<variant, original, content, diagrams, matches, pc>>
    /\ UNCHANGED codec_vars
    /\ UNCHANGED pre_vars

\* one iteration of the loop of build-paper-plantuml.py; ok is what
\* render_plantuml returns (True, or False after any exception of the request)
ReplacePlantuml ==
    /\ pc = "loop"
    /\ variant = "plantuml"
    /\ i < Len(matches)
    /\ LET match == matches[i + 1]
           diagram_num == i + 1
           start == match.start + offset
           end == match.end + offset
       IN  IF i < Len(diagrams)
           THEN \E ok \in BOOLEAN :
                   LET img_ref == ImgRef(diagrams[i + 1], PngFilename(diagram_num))
                   IN  IF ok
                       THEN /\ processed_content' = Spliced(processed_content, start, end, img_ref)
                            /\ offset' = NewOffset(offset, img_ref, match)
                            /\ rendered' = Append(rendered, "ok")
                            /\ applied' = Append(applied, match)
                       ELSE /\ UNCHANGED <<processed_content, offset, applied>>
                            /\ rendered' = Append(rendered, "failed")
           ELSE /\ processed_content' = Spliced(processed_content, start, end, Placeholder)
                /\ offset' = NewOffset(offset, Placeholder, match)
                /\ rendered' = Append(rendered, "none")
                /\ applied' = Append(applied, match)
    /\ i' = i + 1
    /\ UNCHANGED <<variant, original, content, diagrams, matches, pc>>
    /\ UNCHANGED codec_vars
    /\ UNCHANGED pre_vars

\* one iteration of the loop of build-paper-mermaid.py; ok is what
\* render_mermaid returns (False on a non-zero exit or a timeout of mmdc).
\* subprocess.run raises when mmdc cannot be started at all: render_mermaid
\* catches TimeoutExpired only, so that exception leaves main()
ReplaceMermaid ==
    /\ pc = "loop"
    /\ variant = "mermaid"
    /\ i < Len(matches)
    /\ LET match == matches[i + 1]
           diagram_num == i + 1
           start == match.start + offset
           end == match.end + offset
       IN  \/ \E ok \in BOOLEAN :
                 LET img_ref == ImgRef(Caption(diagrams, i), PngFilename(diagram_num))
                 IN  /\ IF ok
                        THEN /\ processed_content' = Spliced(processed_content, start, end, img_ref)
                             /\ offset' = NewOffset(offset, img_ref, match)
                             /\ rendered' = Append(rendered, "ok")
                             /\ applied' = Append(applied, match)
                        ELSE /\ UNCHANGED <<processed_content, offset, applied>>
                             /\ rendered' = Append(rendered, "failed")
                     /\ i' = i + 1
                     /\ pc' = pc
           \/ /\ rendered' = Append(rendered, "raised")
              /\ pc' = "aborted"
              /\ UNCHANGED <<processed_content, offset, applied, i>>
    /\ UNCHANGED <<variant, original, content, diagrams, matches>>
    /\ UNCHANGED codec_vars
    /\ UNCHANGED pre_vars

\* the for loop is exhausted: main() goes on to preprocess_content
LoopExit ==
    /\ pc = "loop"
    /\ variant \in {"ascii", "arxiv", "plantuml", "mermaid"}
    /\ i = Len(matches)
    /\ pc' = "done"
    /\ UNCHANGED <<variant, original, content, diagrams, matches, processed_content,
                   offset, i, rendered, applied>>
    /\ UNCHANGED codec_vars
    /\ UNCHANGED pre_vars

(***************************************************************************)
(* Documents and tables the scripts are run on.                            *)
(***************************************************************************)
\* a block without and with content, an opener that is never closed, a
\* stray fence, a lone backtick, a character of plain text
Parts == { Opener \o Fence,
           Opener \o <<"x", "x">> \o Fence,
           Opener,
           Fence,
           <<"tick">>,
           <<"x">> }

Documents == { Flatten(ps) : ps \in SeqsUpTo(Parts, MaxParts) }

\* a table entry (an ASCII figure, or a title): shorter than every block, or
\* longer than the empty block and as long as the block with content, or
\* the very text of the empty block
Entries == { <<"A">>,
             <<"B", "B", "B", "B", "B", "B", "B", "B", "B">>,
             Opener \o Fence }

Tables == SeqsUpTo(Entries, MaxTable)

PreIdle ==
    /\ script = "none"
    /\ pre_input = <<>>
    /\ pre_prev = <<>>
    /\ pre_content = <<>>
    /\ ppc = "idle"

CodecIdle ==
    /\ text = <<>>
    /\ compressed = <<>>
    /\ result = <<>>
    /\ ei = 0
    /\ epc = "idle"
    /\ einput = "none"

InitSplice ==
    /\ variant \in {"ascii", "arxiv", "plantuml", "mermaid"}
    /\ original \in Documents
    /\ content = original
    /\ diagrams \in Tables
    /\ matches = <<>>
    /\ processed_content = <<>>
    /\ offset = 0
    /\ i = 0
    /\ rendered = <<>>
    /\ applied = <<>>
    /\ pc = "read"
    /\ CodecIdle
    /\ PreIdle

NextSplice ==
    \/ Extract
    \/ ReplaceAscii
    \/ ReplaceArxiv
    \/ ReplacePlantuml
    \/ ReplaceMermaid
    \/ LoopExit

SpecSplice == InitSplice /\ [][NextSplice]_vars

(***************************************************************************)
(* patch-paper-tex.py: the pattern of a highlighted mermaid block in the   *)
(* LaTeX that pandoc wrote, and the replace loop from the end to the       *)
(* beginning.  The commands of the pattern are one symbol each, "\n" is    *)
(* the whitespace the pattern skips, "x" is any other text.                *)
(***************************************************************************)
BeginShaded == "\\begin{Shaded}"
BeginHighlighting == "\\begin{Highlighting}[]"
NormalToks == {"\\NormalTok{graph TB}", "\\NormalTok{flowchart LR}"}
EndHighlighting == "\\end{Highlighting}"
EndShaded == "\\end{Shaded}"

\* the symbol at 0-based position p, "" past the end
SymAt(s, p) == IF p >= 0 /\ p < Len(s) THEN s[p + 1] ELSE ""

\* \s* from position q: the position after the run of whitespace
RECURSIVE SkipWs(_, _)
SkipWs(s, q) == IF SymAt(s, q) = "\n" THEN SkipWs(s, q + 1) ELSE q

\* \end{Highlighting}\s*\end{Shaded} stands at h: the position after it, or -1
ClosesAt(s, h) ==
    IF SymAt(s, h) = EndHighlighting /\ SymAt(s, SkipWs(s, h + 1)) = EndShaded
    THEN SkipWs(s, h + 1) + 1
    ELSE -1

\* the end of the match of the pattern at p, or -1: the two openers, lazily
\* the first \NormalTok{graph|flowchart TB|LR}, lazily the first closer
PatchMatchEnd(s, p) ==
    IF SymAt(s, p) # BeginShaded \/ SymAt(s, SkipWs(s, p + 1)) # BeginHighlighting
    THEN -1
    ELSE LET q == SkipWs(s, p + 1)
             ns == { n \in (q + 1)..Len(s) : SymAt(s, n) \in NormalToks }
         IN  IF ns = {} THEN -1
             ELSE LET n == CHOOSE x \in ns : \A y \in ns : x <= y
                      hs == { h \in (n + 1)..Len(s) : ClosesAt(s, h) >= 0 }
                  IN  IF hs = {} THEN -1
                      ELSE ClosesAt(s, CHOOSE x \in hs : \A y \in hs : x <= y)

\* re.finditer(pattern, content, flags=re.DOTALL) from pos
RECURSIVE PatchFindAll(_, _)
PatchFindAll(s, pos) ==
    LET ps == { p \in pos..Len(s) : PatchMatchEnd(s, p) >= 0 }
    IN  IF ps = {} THEN <<>>
        ELSE LET p == CHOOSE x \in ps : \A y \in ps : x <= y
             IN  <<[start |-> p, end |-> PatchMatchEnd(s, p)]>>
                    \o PatchFindAll(s, PatchMatchEnd(s, p))

\* '% removed mermaid block'
RemovedComment == <<"% removed mermaid block">>

\* mutant of ReversedAt: the matches are taken from the beginning
ReversedAt_Forward(ms, k) == ms[k + 1]

\* the element that enumerate(reversed(matches)) yields with index k
ReversedAt(ms, k) == ms[Len(ms) - k]

\* mutant of PatchIdx: the counter of the reversed loop is used as the index
PatchIdx_Counter(ms, k) == k

\* idx = len(matches) - 1 - i
PatchIdx(ms, k) == Len(ms) - 1 - k

\* matches = list(re.finditer(pattern, content, flags=re.DOTALL))
PatchExtract ==
    /\ pc = "read"
    /\ variant = "patch"
    /\ matches' = PatchFindAll(content, 0)
    /\ i' = 0
    /\ pc' = "loop"
    /\ UNCHANGED <<variant, original, content, diagrams, processed_content, offset,
                   rendered, applied>>
    /\ UNCHANGED codec_vars
    /\ UNCHANGED pre_vars

\* one iteration of the loop over reversed(matches)
PatchReplace ==
    /\ pc = "loop"
    /\ variant = "patch"
    /\ i < Len(matches)
    /\ LET match == ReversedAt(matches, i)
           idx == PatchIdx(matches, i)
       IN  /\ IF idx < Len(diagrams)
              THEN content' = Spliced(content, match.start, match.end, diagrams[idx + 1])
              ELSE content' = Spliced(content, match.start, match.end, RemovedComment)
           /\ applied' = Append(applied, match)
    /\ i' = i + 1
    /\ UNCHANGED <<variant, original, diagrams, matches, processed_content, offset,
                   rendered, pc>>
    /\ UNCHANGED codec_vars
    /\ UNCHANGED pre_vars

\* the loop is exhausted: the patched text is written back
PatchExit ==
    /\ pc = "loop"
    /\ variant = "patch"
    /\ i = Len(matches)
    /\ pc' = "done"
    /\ UNCHANGED <<variant, original, content, diagrams, matches, processed_content,
                   offset, i, rendered, applied>>
    /\ UNCHANGED codec_vars
    /\ UNCHANGED pre_vars

\* a block as pandoc writes it, a block with whitespace and text inside, an
\* opener, closers and text on their own
TexParts == { <<BeginShaded, BeginHighlighting, "\\NormalTok{graph TB}",
                EndHighlighting, EndShaded>>,
              <<BeginShaded, "\n", BeginHighlighting, "x", "\\NormalTok{flowchart LR}",
                "x", EndHighlighting, "\n", EndShaded>>,
              <<BeginShaded, BeginHighlighting>>,
              <<EndHighlighting, EndShaded>>,
              <<"\\NormalTok{graph TB}">>,
              <<"x">> }

TexDocuments == { Flatten(ps) : ps \in SeqsUpTo(TexParts, MaxParts) }

\* the state before line 81, content being the text read and preprocessed
InitPatch ==
    /\ variant = "patch"
    /\ original \in TexDocuments
    /\ content = original
    /\ diagrams \in Tables
    /\ matches = <<>>
    /\ processed_content = <<>>
    /\ offset = 0
    /\ i = 0
    /\ rendered = <<>>
    /\ applied = <<>>
    /\ pc = "read"
    /\ CodecIdle
    /\ PreIdle

NextPatch ==
    \/ PatchExtract
    \/ PatchReplace
    \/ PatchExit

SpecPatch == InitPatch /\ [][NextPatch]_vars

(***************************************************************************)
(* plantuml_encode: text.encode('utf-8'), zlib.compress(..., 9)[2:-4], and *)
(* the mapping of the compressed bytes to the 64-character alphabet.       *)
(***************************************************************************)
RECURSIVE BitAnd(_, _)
\* a & b
BitAnd(a, b) ==
    IF a = 0 \/ b = 0 THEN 0
    ELSE (IF a % 2 = 1 /\ b % 2 = 1 THEN 1 ELSE 0) + 2 * BitAnd(a \div 2, b \div 2)

RECURSIVE BitOr(_, _)
\* a | b
BitOr(a, b) ==
    IF a = 0 THEN b
    ELSE IF b = 0 THEN a
    ELSE (IF a % 2 = 1 \/ b % 2 = 1 THEN 1 ELSE 0) + 2 * BitOr(a \div 2, b \div 2)

\* a << n
Shl(a, n) == a * 2^n

\* a >> n
Shr(a, n) == a \div 2^n

\* one code point as UTF-8 (up to U+FFFF, surrogates excluded)
Utf8Char(c) ==
    IF c < 128 THEN <<c>>
    ELSE IF c < 2048 THEN <<BitOr(192, Shr(c, 6)), BitOr(128, BitAnd(c, 63))>>
    ELSE <<BitOr(224, Shr(c, 12)), BitOr(128, BitAnd(Shr(c, 6), 63)),
           BitOr(128, BitAnd(c, 63))>>

\* text.encode('utf-8')
Utf8(t) == Flatten([k \in 1..Len(t) |-> Utf8Char(t[k])])

\* the n bits of v, most significant first (a Huffman code as deflate packs it)
CodeBits(v, n) == [j \in 1..n |-> (Shr(v, n - j)) % 2]

\* the fixed Huffman code of a literal byte: 8 bits from 00110000 for 0..143,
\* 9 bits from 110010000 for 144..255
LiteralCode(b) == IF b < 144 THEN CodeBits(48 + b, 8) ELSE CodeBits(400 + (b - 144), 9)

\* mutant of DeflateBits: the block is not marked as the final one
DeflateBits_NotFinal(bs) ==
    <<0, 1, 0>> \o Flatten([k \in 1..Len(bs) |-> LiteralCode(bs[k])])
                \o <<0, 0, 0, 0, 0, 0, 0>>

\* one final block (BFINAL = 1) with fixed codes (BTYPE = 01, low bit first),
\* the literals, the 7-bit end-of-block code 256
DeflateBits(bs) ==
    <<1, 1, 0>> \o Flatten([k \in 1..Len(bs) |-> LiteralCode(bs[k])])
                \o <<0, 0, 0, 0, 0, 0, 0>>

\* the bit stream filled up with zero bits to a whole number of bytes
PadToByte(bits) == bits \o [j \in 1..((8 - (Len(bits) % 8)) % 8) |-> 0]

\* bytes of a bit stream, the first bit of each byte being its lowest
PackBytes(bits) ==
    [k \in 1..(Len(bits) \div 8) |->
        bits[8 * k - 7] + 2 * bits[8 * k - 6] + 4 * bits[8 * k - 5] + 8 * bits[8 * k - 4]
        + 16 * bits[8 * k - 3] + 32 * bits[8 * k - 2] + 64 * bits[8 * k - 1]
        + 128 * bits[8 * k]]

\* zlib.compress(bs, 9)[2:-4]: the raw deflate stream.  For the diagram
\* sources of the model (no three bytes occurring twice, a few bytes long)
\* zlib emits a single fixed-Huffman block of literals.
RawDeflate(bs) == PackBytes(PadToByte(DeflateBits(bs)))

\* mutant of alphabet: the ordering of conventional base64
alphabet_Base64 ==
    <<"A", "B", "C", "D", "E", "F", "G", "H", "I", "J", "K", "L", "M",
      "N", "O", "P", "Q", "R", "S", "T", "U", "V", "W", "X", "Y", "Z",
      "a", "b", "c", "d", "e", "f", "g", "h", "i", "j", "k", "l", "m",
      "n", "o", "p", "q", "r", "s", "t", "u", "v", "w", "x", "y", "z",
      "0", "1", "2", "3", "4", "5", "6", "7", "8", "9", "+", "/">>

\* alphabet = "0123456789ABCDEFGHIJKLMNOPQRSTUVWXYZabcdefghijklmnopqrstuvwxyz-_"
alphabet ==
    <<"0", "1", "2", "3", "4", "5", "6", "7", "8", "9",
      "A", "B", "C", "D", "E", "F", "G", "H", "I", "J", "K", "L", "M",
      "N", "O", "P", "Q", "R", "S", "T", "U", "V", "W", "X", "Y", "Z",
      "a", "b", "c", "d", "e", "f", "g", "h", "i", "j", "k", "l", "m",
      "n", "o", "p", "q", "r", "s", "t", "u", "v", "w", "x", "y", "z",
      "-", "_">>

\* mutant of Group3: the four indices are emitted lowest bits first
Group3_LowFirst(b1, b2, b3) ==
    << BitAnd(b3, 63),
       BitOr(Shl(BitAnd(b2, 15), 2), Shr(b3, 6)),
       BitOr(Shl(BitAnd(b1, 3), 4), Shr(b2, 4)),
       Shr(b1, 2) >>

\* the indices of a group of three bytes
Group3(b1, b2, b3) ==
    << Shr(b1, 2),
       BitOr(Shl(BitAnd(b1, 3), 4), Shr(b2, 4)),
       BitOr(Shl(BitAnd(b2, 15), 2), Shr(b3, 6)),
       BitAnd(b3, 63) >>

\* mutant of Group2: the last four bits are not shifted up
Group2_LowNibble(b1, b2) ==
    << Shr(b1, 2),
       BitOr(Shl(BitAnd(b1, 3), 4), Shr(b2, 4)),
       BitAnd(b2, 15) >>

\* the indices of a final group of two bytes
Group2(b1, b2) ==
    << Shr(b1, 2),
       BitOr(Shl(BitAnd(b1, 3), 4), Shr(b2, 4)),
       Shl(BitAnd(b2, 15), 2) >>

\* mutant of Group1: the last two bits of the byte are dropped
Group1_HighOnly(b1) ==
    << Shr(b1, 2),
       0 >>

\* the indices of a final group of one byte
Group1(b1) ==
    << Shr(b1, 2),
       Shl(BitAnd(b1, 3), 4) >>

\* the indices the loop body computes at position idx of bs
GroupAt(bs, idx) ==
    IF idx + 2 < Len(bs) THEN Group3(bs[idx + 1], bs[idx + 2], bs[idx + 3])
    ELSE IF idx + 1 < Len(bs) THEN Group2(bs[idx + 1], bs[idx + 2])
    ELSE Group1(bs[idx + 1])

\* i += 3, i += 2 or i += 1
GroupStep(bs, idx) ==
    IF idx + 2 < Len(bs) THEN 3 ELSE IF idx + 1 < Len(bs) THEN 2 ELSE 1

\* alphabet[v] does not raise IndexError
IndexOk(v) == -Len(alphabet) <= v /\ v < Len(alphabet)

\* alphabet[v], a negative v counting from the end
AlphabetAt(v) == IF v < 0 THEN alphabet[Len(alphabet) + v + 1] ELSE alphabet[v + 1]

\* compressed = zlib.compress(text.encode('utf-8'), 9)[2:-4]; result = []; i = 0
Compress ==
    /\ epc = "compress"
    /\ compressed' = RawDeflate(Utf8(text))
    /\ result' = <<>>
    /\ ei' = 0
    /\ epc' = "loop"
    /\ UNCHANGED <<text, einput>>
    /\ UNCHANGED splice_vars
    /\ UNCHANGED pre_vars

\* one iteration of the while loop
EncodeStep ==
    /\ epc = "loop"
    /\ ei < Len(compressed)
    /\ LET idxs == GroupAt(compressed, ei)
       IN  IF \A j \in 1..Len(idxs) : IndexOk(idxs[j])
           THEN /\ result' = result \o [j \in 1..Len(idxs) |-> AlphabetAt(idxs[j])]
                /\ ei' = ei + GroupStep(compressed, ei)
                /\ epc' = "loop"
           ELSE /\ epc' = "error"
                /\ UNCHANGED <<result, ei>>
    /\ UNCHANGED <<text, compressed, einput>>
    /\ UNCHANGED splice_vars
    /\ UNCHANGED pre_vars

\* the loop condition fails: return ''.join(result)
EncodeReturn ==
    /\ epc = "loop"
    /\ ei >= Len(compressed)
    /\ epc' = "done"
    /\ UNCHANGED <<text, compressed, result, ei, einput>>
    /\ UNCHANGED splice_vars
    /\ UNCHANGED pre_vars

\* code points of the diagram sources: "\n", "@", "a", e acute, box drawing dash
CodePoints == {10, 64, 97, 233, 9472}

\* no three consecutive bytes occur twice (zlib finds no match to encode)
NoRepeat(bs) ==
    \A a, b \in 1..(Len(bs) - 2) : a # b => SubSeq(bs, a, a + 2) # SubSeq(bs, b, b + 2)

Texts == { t \in SeqsUpTo(CodePoints, MaxTextLen) : NoRepeat(Utf8(t)) }

\* byte values of the compressed sequences the mapping loop is run on directly
ByteVals == {0, 3, 16, 64, 165, 255}

ByteSeqs == SeqsUpTo(ByteVals, MaxBytes)

SpliceIdle ==
    /\ variant = "none"
    /\ original = <<>>
    /\ content = <<>>
    /\ diagrams = <<>>
    /\ matches = <<>>
    /\ processed_content = <<>>
    /\ offset = 0
    /\ i = 0
    /\ rendered = <<>>
    /\ applied = <<>>
    /\ pc = "idle"

\* a call plantuml_encode(text), or the mapping loop entered with a given
\* compressed sequence
InitCodec ==
    /\ SpliceIdle
    /\ PreIdle
    /\ result = <<>>
    /\ ei = 0
    /\ \/ /\ einput = "text"
          /\ text \in Texts
          /\ compressed = <<>>
          /\ epc = "compress"
       \/ /\ einput = "bytes"
          /\ text = <<>>
          /\ compressed \in ByteSeqs
          /\ epc = "loop"

NextCodec ==
    \/ Compress
    \/ EncodeStep
    \/ EncodeReturn

SpecCodec == InitCodec /\ [][NextCodec]_vars

(***************************************************************************)
(* preprocess_content and wrap_bare_urls of the four build scripts.  Here  *)
(* a symbol is one character, or one of the fixed words "http://",         *)
(* "https://", "---", "**Luis", " Cezar", " DANEEL:", " Abstract" and      *)
(* " Title"; a word that contains a blank starts with it, and "\n" is the  *)
(* only symbol with a line feed.                                           *)
(***************************************************************************)
TitleAnchor == <<"#", " DANEEL:">>
AuthorAnchor == <<"**Luis", " Cezar">>
Sep == <<"---", "\n">>
AbstractHeading == <<"#", "#", " Abstract", "\n", "\n">>
SectionAhead == <<"\n", "#", "#">>

\* the first position from q on where the word w stands, or -1
FirstAt(s, q, w) ==
    LET cs == { c \in q..(Len(s) - Len(w)) : IsAt(s, c, w) }
    IN  IF cs = {} THEN -1 ELSE CHOOSE c \in cs : \A d \in cs : c <= d

\* re.sub(pattern, repl, s) given the matches ms of the pattern and the
\* text texts[k] that repl yields for match k: from match k and position pos on
RECURSIVE ReSubFrom(_, _, _, _, _)
ReSubFrom(s, ms, texts, k, pos) ==
    IF k > Len(ms) THEN PyTail(s, pos)
    ELSE PySlice(s, pos, ms[k].start) \o texts[k] \o ReSubFrom(s, ms, texts, k + 1, ms[k].end)

ReSub(s, ms, texts) == ReSubFrom(s, ms, texts, 1, 0)

\* the title pattern: the anchor at the start of the buffer, then lazily up
\* to the first line feed; the end of its match, or 0 without a match
TitleEnd(s) ==
    IF IsAt(s, 0, TitleAnchor) /\ FirstAt(s, Len(TitleAnchor), <<"\n">>) >= 0
    THEN FirstAt(s, Len(TitleAnchor), <<"\n">>) + 1
    ELSE 0

\* the author pattern (DOTALL): the anchor at the start of the buffer, then
\* lazily up to the first separator; the end of its match, or 0
AuthorEnd(s) ==
    IF IsAt(s, 0, AuthorAnchor) /\ FirstAt(s, Len(AuthorAnchor), Sep) >= 0
    THEN FirstAt(s, Len(AuthorAnchor), Sep) + Len(Sep)
    ELSE 0

\* mutant of FrontEnd: a greedy pattern, which runs to the last separator
FrontEnd_Greedy(s) ==
    LET cs == { c \in 0..(Len(s) - Len(Sep)) : IsAt(s, c, Sep) }
    IN  IF cs = {} THEN 0 ELSE (CHOOSE c \in cs : \A d \in cs : c >= d) + Len(Sep)

\* the front matter pattern of build-arxiv-package (DOTALL): from the start
\* of the buffer lazily up to the first separator; the end of its match, or 0
FrontEnd(s) ==
    IF FirstAt(s, 0, Sep) >= 0 THEN FirstAt(s, 0, Sep) + Len(Sep) ELSE 0

\* ^ under MULTILINE: the start of the buffer, or just after a line feed
LineStart(s, p) == p = 0 \/ (p <= Len(s) /\ s[p] = "\n")

\* the Abstract pattern matches at p
AbstractAt(s, p) == LineStart(s, p) /\ IsAt(s, p, AbstractHeading)

\* the lazy group of the Abstract pattern ends where the lookahead holds:
\* a line feed and two hashes follow, or the buffer ends
AbstractEnd(s, p) ==
    LET c == FirstAt(s, p + Len(AbstractHeading), SectionAhead)
    IN  IF c >= 0 THEN c ELSE Len(s)

\* all matches of the Abstract pattern from pos on
RECURSIVE AbstractFindAll(_, _)
AbstractFindAll(s, pos) ==
    LET ps == { p \in pos..Len(s) : AbstractAt(s, p) }
    IN  IF ps = {} THEN <<>>
        ELSE LET p == CHOOSE x \in ps : \A y \in ps : x <= y
             IN  <<[start |-> p, end |-> AbstractEnd(s, p)]>>
                    \o AbstractFindAll(s, AbstractEnd(s, p))

\* re.sub of the Abstract pattern with the empty string
RemoveAbstract(s) ==
    LET ms == AbstractFindAll(s, 0)
    IN  ReSub(s, ms, [k \in 1..Len(ms) |-> <<>>])

\* https?://
Scheme == {"http://", "https://"}

\* the symbols that start with a character the URL class excludes:
\* white space, < > ) ] }
UrlStop == {" ", "\n", "<", ">", ")", "]", "}", " DANEEL:", " Cezar", " Abstract", " Title"}

\* the three negative lookbehinds at position p
NotEnclosed(s, p) ==
    /\ ~(p >= 1 /\ s[p] \in {"(", "[", "{", "\""})
    /\ ~IsAt(s, p - 2, <<"]", "(">>)
    /\ ~IsAt(s, p - 5, <<"\\", "u", "r", "l", "{">>)

\* url_pattern matches at p: lookbehinds, scheme, at least one URL character
UrlAt(s, p) ==
    /\ p + 2 <= Len(s)
    /\ s[p + 1] \in Scheme
    /\ s[p + 2] \notin UrlStop
    /\ NotEnclosed(s, p)

\* the greedy URL class: the match runs to the next excluded character
UrlEnd(s, p) ==
    LET es == { e \in (p + 2)..(Len(s) - 1) : s[e + 1] \in UrlStop }
    IN  IF es = {} THEN Len(s) ELSE CHOOSE e \in es : \A d \in es : e <= d

\* all matches of url_pattern from pos on
RECURSIVE FindUrls(_, _)
FindUrls(s, pos) ==
    LET ps == { p \in pos..Len(s) : UrlAt(s, p) }
    IN  IF ps = {} THEN <<>>
        ELSE LET p == CHOOSE x \in ps : \A y \in ps : x <= y
             IN  <<[start |-> p, end |-> UrlEnd(s, p)]>> \o FindUrls(s, UrlEnd(s, p))

\* '.,;:!?)'
Punct == {".", ",", ";", ":", "!", "?", ")"}

\* mutant of TrimUrl: at most one trailing character is moved
TrimUrl_Once(url, trailing) ==
    IF url # <<>> /\ url[Len(url)] \in Punct
    THEN [url |-> PyHead(url, -1), trailing |-> <<url[Len(url)]>> \o trailing]
    ELSE [url |-> url, trailing |-> trailing]

\* while url and url[-1] in '.,;:!?)': trailing = url[-1] + trailing; url = url[:-1]
RECURSIVE TrimUrl(_, _)
TrimUrl(url, trailing) ==
    IF url # <<>> /\ url[Len(url)] \in Punct
    THEN TrimUrl(PyHead(url, -1), <<url[Len(url)]>> \o trailing)
    ELSE [url |-> url, trailing |-> trailing]

\* the wrap marker that opens, and the brace that closes
WrapOpen == <<"\\", "u", "r", "l", "{">>
WrapClose == <<"}">>

\* mutant of replace_url: the trimmed tail is not put back
replace_url_NoTail(group1) ==
    LET t == TrimUrl(group1, <<>>)
    IN  WrapOpen \o t.url \o WrapClose

\* replace_url(match), group1 being match.group(1)
replace_url(group1) ==
    LET t == TrimUrl(group1, <<>>)
    IN  WrapOpen \o t.url \o WrapClose \o t.trailing

\* re.sub(url_pattern, replace_url, content)
wrap_bare_urls(s) ==
    LET ms == FindUrls(s, 0)
    IN  ReSub(s, ms, [k \in 1..Len(ms) |-> replace_url(PySlice(s, ms[k].start, ms[k].end))])

\* the title line is removed (ascii, plantuml, mermaid)
StripTitle ==
    /\ ppc = "title"
    /\ script \in {"ascii", "plantuml", "mermaid"}
    /\ pre_prev' = pre_content
    /\ pre_content' = PyTail(pre_content, TitleEnd(pre_content))
    /\ ppc' = "author"
    /\ UNCHANGED <<script, pre_input>>
    /\ UNCHANGED splice_vars
    /\ UNCHANGED codec_vars

\* the author block at the top is removed (ascii, plantuml, mermaid)
StripAuthor ==
    /\ ppc = "author"
    /\ script \in {"ascii", "plantuml", "mermaid"}
    /\ pre_prev' = pre_content
    /\ pre_content' = PyTail(pre_content, AuthorEnd(pre_content))
    /\ ppc' = "abstract"
    /\ UNCHANGED <<script, pre_input>>
    /\ UNCHANGED splice_vars
    /\ UNCHANGED codec_vars

\* everything from the start to the first separator is removed (arxiv)
StripFront ==
    /\ ppc = "front"
    /\ script = "arxiv"
    /\ pre_prev' = pre_content
    /\ pre_content' = PyTail(pre_content, FrontEnd(pre_content))
    /\ ppc' = "abstract"
    /\ UNCHANGED <<script, pre_input>>
    /\ UNCHANGED splice_vars
    /\ UNCHANGED codec_vars

\* the Abstract section is removed
StripAbstract ==
    /\ ppc = "abstract"
    /\ pre_prev' = pre_content
    /\ pre_content' = RemoveAbstract(pre_content)
    /\ ppc' = "wrap"
    /\ UNCHANGED <<script, pre_input>>
    /\ UNCHANGED splice_vars
    /\ UNCHANGED codec_vars

\* content = wrap_bare_urls(content); return content
WrapUrls ==
    /\ ppc = "wrap"
    /\ pre_prev' = pre_content
    /\ pre_content' = wrap_bare_urls(pre_content)
    /\ ppc' = "done"
    /\ UNCHANGED <<script, pre_input>>
    /\ UNCHANGED splice_vars
    /\ UNCHANGED codec_vars

\* the top of a paper: a title line, the opener of the author block, a
\* separator line, text, a line feed
FrontParts == { TitleAnchor \o <<"x", "\n">>,
                AuthorAnchor,
                Sep,
                <<"x">>,
                <<"\n">> }

\* sections: the Abstract heading at the start of the buffer and after a
\* line, headings of level 1, 2 and 3 after a line, text
SectionParts == { AbstractHeading,
                  <<"\n">> \o AbstractHeading,
                  <<"\n", "#", " Title">>,
                  <<"\n", "#", "#", " Title">>,
                  <<"\n", "#", "#", "#", " Title">>,
                  <<"x">> }

\* URLs and what may stand around them
UrlParts == { <<"http://", "a">>,
              <<"https://">>,
              <<".">>,
              <<",">>,
              <<" ">>,
              <<",", " ">>,
              <<"(">>,
              <<")">>,
              <<"[">>,
              <<"]", "(">>,
              <<"\"">>,
              WrapOpen,
              WrapClose }

PreDocuments ==
    { Flatten(ps) : ps \in SeqsUpTo(FrontParts, MaxFrontParts) }
        \cup { Flatten(ps) : ps \in SeqsUpTo(SectionParts, MaxSectionParts) }
        \cup { Flatten(ps) : ps \in SeqsUpTo(UrlParts, MaxUrlParts) }

\* a call preprocess_content(processed_content) of one of the scripts
InitPre ==
    /\ SpliceIdle
    /\ CodecIdle
    /\ script \in {"ascii", "arxiv", "plantuml", "mermaid"}
    /\ pre_input \in PreDocuments
    /\ pre_prev = pre_input
    /\ pre_content = pre_input
    /\ ppc = IF script = "arxiv" THEN "front" ELSE "title"

NextPre ==
    \/ StripTitle
    \/ StripAuthor
    \/ StripFront
    \/ StripAbstract
    \/ WrapUrls

SpecPre == InitPre /\ [][NextPre]_vars

(***************************************************************************)
(* What a run of a build script is expected to leave at block k (1-based), *)
(* and the single-pass copy of section 4.2 of the specification.           *)
(***************************************************************************)
\* the text that stands in the output where block k stood
NewText(k) ==
    CASE variant \in {"ascii", "arxiv"} ->
            IF k <= Len(diagrams) THEN diagrams[k] ELSE <<>>
      [] variant = "plantuml" ->
            IF k > Len(diagrams) THEN Placeholder
            ELSE IF rendered[k] = "ok" THEN ImgRef(diagrams[k], PngFilename(k))
            ELSE BlockText(original, matches[k])
      [] variant = "mermaid" ->
            IF rendered[k] = "ok" THEN ImgRef(Caption(diagrams, k - 1), PngFilename(k))
            ELSE BlockText(original, matches[k])

\* gaps copied verbatim from buf, texts[k] emitted at spans[k], from span k on
RECURSIVE CopyFrom(_, _, _, _, _)
CopyFrom(buf, spans, texts, k, pos) ==
    IF k > Len(spans) THEN SubSeq(buf, pos + 1, Len(buf))
    ELSE SubSeq(buf, pos + 1, spans[k].start) \o texts[k]
            \o CopyFrom(buf, spans, texts, k + 1, spans[k].end)

SinglePassCopy(buf, spans, texts) == CopyFrom(buf, spans, texts, 1, 0)

\* C1: when the replace loop of a build script has ended, the working buffer
\* equals the single-pass copy of the original buffer: every gap before,
\* between and after the block spans verbatim, and at each span the
\* replacement text (the block itself where its render failed and nothing
\* was replaced).
C1_LoopEqualsSinglePassCopy ==
    pc = "done" =>
        processed_content =
            SinglePassCopy(original, matches, [k \in 1..Len(matches) |-> NewText(k)])

\* C1 witness: a finished run over two blocks with text between them, the
\* first replaced by a text of another length
C1_Witness ==
    /\ pc = "done"
    /\ Len(matches) >= 2
    /\ matches[1].end < matches[2].start
    /\ Len(NewText(1)) # matches[1].end - matches[1].start
    /\ processed_content # original

\* C2: at the start of every iteration, every block not yet processed
\* stands in the working buffer at its original span shifted by offset.
C2_PendingBlocksInPlace ==
    pc = "loop" =>
        \A k \in (i + 1)..Len(matches) :
            /\ matches[k].start + offset >= 0
            /\ PySlice(processed_content, matches[k].start + offset,
                       matches[k].end + offset) = BlockText(original, matches[k])

\* C2 witness: the third iteration is about to start, after a failed render
\* that left the first block in place and a replacement that moved the rest
C2_Witness ==
    /\ pc = "loop"
    /\ i = 2
    /\ Len(matches) = 3
    /\ rendered[1] = "failed"
    /\ rendered[2] = "ok"
    /\ offset # 0

\* an opener that no closing fence follows
HasUnclosedOpener(s) ==
    \E p \in 0..Len(s) : IsAt(s, p, Opener) /\ NearestFence(s, p + Len(Opener)) < 0

\* C9 (as claimed): a document with an opener that has no matching closer
\* yields no list of blocks and no replacement.
C9_MalformedBlockFailsPass ==
    (pc \in {"loop", "done"} /\ HasUnclosedOpener(content)) =>
        /\ matches = <<>>
        /\ processed_content = content

\* C10: the spans of one extraction pass lie inside the buffer, are sorted
\* ascending by start and do not overlap.
C10_SpansOrderedDisjoint ==
    pc \in {"loop", "done"} =>
        /\ \A k \in 1..Len(matches) :
              /\ 0 <= matches[k].start
              /\ matches[k].start <= matches[k].end
              /\ matches[k].end <= Len(content)
        /\ \A k \in 1..(Len(matches) - 1) :
              /\ matches[k].start < matches[k + 1].start
              /\ matches[k].end <= matches[k + 1].start

\* C10 witness: an extraction pass that returned three blocks, one of them
\* starting right where the previous one ends
C10_Witness ==
    /\ pc = "loop"
    /\ Len(matches) = 3
    /\ matches[1].end = matches[2].start

(***************************************************************************)
(* The decoder of section 4.3 of the specification: it reverses the        *)
(* alphabet mapping, the 6-bit grouping, the compression and the UTF-8     *)
(* encoding.  <<-1>> stands for a token or a stream it rejects.            *)
(***************************************************************************)
\* the fixed ordering 0-9, A-Z, a-z, '-', '_'
Ordering ==
    <<"0", "1", "2", "3", "4", "5", "6", "7", "8", "9">>
    \o <<"A", "B", "C", "D", "E", "F", "G", "H", "I", "J", "K", "L", "M",
         "N", "O", "P", "Q", "R", "S", "T", "U", "V", "W", "X", "Y", "Z">>
    \o <<"a", "b", "c", "d", "e", "f", "g", "h", "i", "j", "k", "l", "m",
         "n", "o", "p", "q", "r", "s", "t", "u", "v", "w", "x", "y", "z">>
    \o <<"-", "_">>

\* the rank of a character in the ordering, -1 for a foreign character
RankOf(ch) ==
    IF \E v \in 1..Len(Ordering) : Ordering[v] = ch
    THEN (CHOOSE v \in 1..Len(Ordering) : Ordering[v] = ch) - 1
    ELSE -1

Ranks(tok) == [j \in 1..Len(tok) |-> RankOf(tok[j])]

\* 6-bit values back to bytes: 4 values give 3 bytes, a tail of 3 values
\* gives 2 bytes, a tail of 2 values gives 1 byte
RECURSIVE UnGroup(_)
UnGroup(vs) ==
    IF Len(vs) = 0 THEN <<>>
    ELSE IF Len(vs) = 1 THEN <<-1>>
    ELSE IF Len(vs) = 2 THEN <<vs[1] * 4 + vs[2] \div 16>>
    ELSE IF Len(vs) = 3
         THEN <<vs[1] * 4 + vs[2] \div 16, (vs[2] % 16) * 16 + vs[3] \div 4>>
    ELSE <<vs[1] * 4 + vs[2] \div 16, (vs[2] % 16) * 16 + vs[3] \div 4,
           (vs[3] % 4) * 64 + vs[4]>> \o UnGroup(SubSeq(vs, 5, Len(vs)))

\* token to compressed bytes
Unmap(tok) ==
    IF \E j \in 1..Len(tok) : RankOf(tok[j]) < 0 THEN <<-1>> ELSE UnGroup(Ranks(tok))

\* the bits of a byte sequence, the lowest bit of each byte first
UnpackBits(bs) == [j \in 1..(8 * Len(bs)) |-> (bs[(j + 7) \div 8] \div 2^((j - 1) % 8)) % 2]

\* the number whose binary digits, most significant first, are bits[pos+1 .. pos+n]
RECURSIVE CodeValue(_, _, _)
CodeValue(bits, pos, n) ==
    IF n = 0 THEN 0 ELSE 2 * CodeValue(bits, pos, n - 1) + bits[pos + n]

\* the literals of a fixed-Huffman block from bit position pos up to the
\* end-of-block code; a length code (a back reference) is rejected
RECURSIVE InflateFrom(_, _)
InflateFrom(bits, pos) ==
    IF pos + 7 > Len(bits) THEN <<-1>>
    ELSE IF CodeValue(bits, pos, 7) = 0 THEN <<>>
    ELSE IF CodeValue(bits, pos, 7) < 24 THEN <<-1>>
    ELSE IF pos + 8 > Len(bits) THEN <<-1>>
    ELSE IF CodeValue(bits, pos, 8) < 192
         THEN <<CodeValue(bits, pos, 8) - 48>> \o InflateFrom(bits, pos + 8)
    ELSE IF CodeValue(bits, pos, 8) < 200 THEN <<-1>>
    ELSE IF pos + 9 > Len(bits) THEN <<-1>>
    ELSE <<CodeValue(bits, pos, 9) - 400 + 144>> \o InflateFrom(bits, pos + 9)

\* raw deflate stream to bytes: one final block with fixed codes
Inflate(bs) ==
    LET bits == UnpackBits(bs)
    IN  IF Len(bits) < 3 \/ SubSeq(bits, 1, 3) # <<1, 1, 0>> THEN <<-1>>
        ELSE InflateFrom(bits, 3)

\* UTF-8 bytes to code points
RECURSIVE Utf8Decode(_)
Utf8Decode(bs) ==
    IF bs = <<>> THEN <<>>
    ELSE IF bs[1] < 0 THEN <<-1>>
    ELSE IF bs[1] < 128 THEN <<bs[1]>> \o Utf8Decode(Tail(bs))
    ELSE IF bs[1] >= 192 /\ bs[1] < 224 /\ Len(bs) >= 2
         THEN <<(bs[1] - 192) * 64 + (bs[2] - 128)>> \o Utf8Decode(SubSeq(bs, 3, Len(bs)))
    ELSE IF bs[1] >= 224 /\ bs[1] < 240 /\ Len(bs) >= 3
         THEN <<(bs[1] - 224) * 4096 + (bs[2] - 128) * 64 + (bs[3] - 128)>>
                 \o Utf8Decode(SubSeq(bs, 4, Len(bs)))
    ELSE <<-1>>

\* C3: the decoder recovers the input of the encoder: the token maps back
\* to exactly the compressed bytes (so the byte-to-symbol mapping is
\* injective), and for an encoded diagram source the compressed bytes
\* inflate and decode back to the source.
C3_DecodeEncodeIsIdentity ==
    epc = "done" =>
        /\ Unmap(result) = compressed
        /\ einput = "text" => Utf8Decode(Inflate(Unmap(result))) = text

\* C3 witness: an encoded two-character source with a non-ASCII character
\* whose compressed form does not fill whole groups of 3 bytes
C3_Witness ==
    /\ epc = "done"
    /\ einput = "text"
    /\ Len(text) = 2
    /\ \E k \in 1..Len(text) : text[k] > 127
    /\ Len(compressed) % 3 # 0

\* C4: the token has 4 symbols per full group of 3 bytes plus 2 or 3 for
\* a trailing group of 1 or 2 bytes, no padding symbol, and the 4 symbols
\* of a full group carry its 24 bits, most significant first.
C4_TokenLengthAndGrouping ==
    epc = "done" =>
        LET n == Len(compressed)
            vs == Ranks(result)
        IN  /\ Len(result) = 4 * (n \div 3)
                              + (CASE n % 3 = 0 -> 0 [] n % 3 = 1 -> 2 [] n % 3 = 2 -> 3)
            /\ \A j \in 1..Len(result) : result[j] # "="
            /\ \A g \in 0..((n \div 3) - 1) :
                  vs[4 * g + 1] * 262144 + vs[4 * g + 2] * 4096 + vs[4 * g + 3] * 64
                     + vs[4 * g + 4]
                  = compressed[3 * g + 1] * 65536 + compressed[3 * g + 2] * 256
                     + compressed[3 * g + 3]

\* C4 witness: a token of 6 symbols for 4 bytes, the full group not all zero
C4_Witness ==
    /\ epc = "done"
    /\ einput = "bytes"
    /\ Len(compressed) = 4
    /\ compressed[1] = 165
    /\ compressed[3] = 3
    /\ Len(result) = 6

\* C5 (as claimed): for a final group of 2 bytes the 6-bit value of the
\* 3rd symbol has the last 4 bits of the second byte as its low nibble and
\* its other 2 bits zero.
C5_TailNibbleIsLowNibble ==
    (epc = "done" /\ Len(compressed) % 3 = 2) =>
        RankOf(result[Len(result)]) = compressed[Len(compressed)] % 16

\* C5 (amended): for a final group of 2 bytes the 6-bit value of the 3rd
\* symbol has the last 4 bits of the second byte as its high 4 bits and
\* its low 2 bits zero.
C5_TailNibbleIsShiftedUp ==
    (epc = "done" /\ Len(compressed) % 3 = 2) =>
        /\ RankOf(result[Len(result)]) \div 4 = compressed[Len(compressed)] % 16
        /\ RankOf(result[Len(result)]) % 4 = 0

\* C5 witness: a finished token whose final group has 2 bytes, the second
\* with a non-zero low nibble
C5_Witness ==
    /\ epc = "done"
    /\ Len(compressed) % 3 = 2
    /\ compressed[Len(compressed)] % 16 # 0

\* C6 (as claimed): encoding the empty input raises no error and returns
\* the empty token.
C6_EmptyInputEmptyToken ==
    (einput = "text" /\ text = <<>>) =>
        /\ epc # "error"
        /\ epc = "done" => result = <<>>

\* C6 (amended): encoding the empty input raises no error and returns the
\* token 0m0, the mapping of the two bytes 03 00 that are the raw deflate
\* stream of the empty input.
C6_EmptyInputToken ==
    (einput = "text" /\ text = <<>>) =>
        /\ epc # "error"
        /\ epc \in {"loop", "done"} => compressed = <<3, 0>>
        /\ epc = "done" => result = <<"0", "m", "0">>

\* C6 witness: plantuml_encode has returned for the empty input
C6_Witness ==
    /\ einput = "text"
    /\ text = <<>>
    /\ epc = "done"

\* the bits of a byte sequence, the highest bit of each byte first, filled
\* up with zero bits to a whole number of 6-bit groups
SixBitStream(bs) ==
    [j \in 1..(6 * ((8 * Len(bs) + 5) \div 6)) |->
        IF j <= 8 * Len(bs) THEN (bs[(j + 7) \div 8] \div 2^(7 - ((j - 1) % 8))) % 2 ELSE 0]

\* the j-th 6-bit value of a byte sequence
SixBit(bs, j) == CodeValue(SixBitStream(bs), 6 * (j - 1), 6)

\* C7: every index into the alphabet lies in 0..63 (no lookup fails), every
\* character of the token belongs to the 64-character alphabet, and the
\* j-th character is the one of rank v in the ordering 0-9, A-Z, a-z, -, _
\* where v is the j-th 6-bit value of the compressed bytes.
C7_IndicesAndAlphabet ==
    /\ epc # "error"
    /\ (epc = "loop" /\ ei < Len(compressed)) =>
          \A j \in 1..Len(GroupAt(compressed, ei)) :
              GroupAt(compressed, ei)[j] \in 0..63
    /\ \A j \in 1..Len(result) : RankOf(result[j]) \in 0..63
    /\ epc = "done" =>
          \A j \in 1..Len(result) : result[j] = Ordering[SixBit(compressed, j) + 1]

\* C7 witness: a finished token that holds the characters of rank 0 and 63
C7_Witness ==
    /\ epc = "done"
    /\ Len(compressed) >= 3
    /\ \E j \in 1..Len(result) : result[j] = "_"
    /\ \E j \in 1..Len(result) : result[j] = "0"
    /\ \E j \in 1..Len(result) : result[j] = "G"

\* the spans were spliced in an order that is not ascending by start
SplicedOutOfOrder ==
    \E j \in 1..(Len(applied) - 1) : applied[j].start > applied[j + 1].start

\* C8 (as claimed): when spans are spliced in an order that is not
\* ascending by start, the run has failed a precondition check.
C8_UnsortedFailsFast == SplicedOutOfOrder => pc = "failed"

\* C8 (amended): patch-paper-tex splices the spans in descending start
\* order with their original offsets; the run fails no check, and nothing
\* is corrupted: the text before the last spliced span is the original
\* text, so every span still to be spliced holds its block at its
\* original offsets.
C8_DescendingOrderKeepsOffsets ==
    /\ pc \in {"read", "loop", "done"}
    /\ \A j \in 1..(Len(applied) - 1) : applied[j].start >= applied[j + 1].end
    /\ pc = "loop" =>
          /\ Len(applied) = i
          /\ \A k \in 1..(Len(matches) - i) :
                PySlice(content, matches[k].start, matches[k].end)
                    = BlockText(original, matches[k])
          /\ i > 0 =>
                PyHead(content, applied[i].start) = PyHead(original, applied[i].start)

\* C8 witness: the loop of patch-paper-tex has spliced two spans, the later
\* one first, by texts of other lengths, and a third is still to be spliced
C8_Witness ==
    /\ variant = "patch"
    /\ pc = "loop"
    /\ i = 2
    /\ Len(matches) = 3
    /\ SplicedOutOfOrder
    /\ Len(content) # Len(original)

(***************************************************************************)
(* Block extraction and the forward replace loops: closing fence, round    *)
(* trip, lengths.                                                          *)
(***************************************************************************)
\* match.group(1) of block m, the text between the opener and the closer
RawContent(s, m) == PySlice(s, m.start + Len(Opener), m.end - Len(Fence))

\* C11: every extracted span is opener + rawContent + closer, the closer is
\* the nearest fence after the opener (no fence starts between the end of the
\* opener and the closer), and rawContent contains no fence.
C11_BlockEndsAtNearestFence ==
    pc \in {"loop", "done"} =>
        \A k \in 1..Len(matches) :
            LET m == matches[k]
                raw == RawContent(content, m)
            IN  /\ m.end - m.start >= Len(Opener) + Len(Fence)
                /\ BlockText(content, m) = Opener \o raw \o Fence
                /\ \A c \in (m.start + Len(Opener))..(m.end - Len(Fence) - 1) :
                      ~IsAt(content, c, Fence)
                /\ \A p \in 0..Len(raw) : ~IsAt(raw, p, Fence)

\* C11 witness: a block with content whose closer is followed by a later
\* fence, which a greedy group would have run to
C11_Witness ==
    /\ pc = "loop"
    /\ \E k \in 1..Len(matches) :
          /\ RawContent(content, matches[k]) # <<>>
          /\ \E c \in matches[k].end..Len(content) : IsAt(content, c, Fence)

\* C12: a finished run in which every block was resolved with the text its
\* span covered (and a run over a buffer with no block) leaves the working
\* buffer equal to the original buffer.
C12_IdentityRoundTrip ==
    (/\ pc = "done"
     /\ \A k \in 1..Len(matches) : NewText(k) = BlockText(original, matches[k]))
        => processed_content = original

\* C12 witness: a finished run that spliced two blocks, each with the text
\* of the block itself, with text after the last block
C12_Witness ==
    /\ pc = "done"
    /\ Len(matches) = 2
    /\ applied = matches
    /\ \A k \in 1..2 : NewText(k) = BlockText(original, matches[k])
    /\ matches[2].end < Len(original)

\* the sum of len(newText) - (end - start) over the replacements applied to
\* blocks 1..k (a block whose render failed had no replacement applied)
RECURSIVE DeltaSum(_)
DeltaSum(k) ==
    IF k = 0 THEN 0
    ELSE DeltaSum(k - 1)
            + (IF rendered[k] = "failed" THEN 0
               ELSE Len(NewText(k)) - (matches[k].end - matches[k].start))

\* C13: after every iteration the working buffer is as long as the original
\* plus the running offset, the offset is the sum of the length deltas of the
\* replacements applied so far (so on completion the output length is the
\* original length plus that sum), and the slice indices of the next
\* iteration lie between 0 and the length of the working buffer.
C13_LengthAndOffset ==
    pc \in {"loop", "done"} =>
        /\ Len(processed_content) = Len(original) + offset
        /\ offset = DeltaSum(i)
        /\ pc = "done" => Len(processed_content) = Len(original) + DeltaSum(Len(matches))
        /\ i < Len(matches) =>
              /\ 0 <= matches[i + 1].start + offset
              /\ matches[i + 1].start + offset <= matches[i + 1].end + offset
              /\ matches[i + 1].end + offset <= Len(processed_content)

\* C13 witness: the third iteration of build-arxiv-package is about to start
\* after a replacement that lengthened the buffer and a removal that
\* shortened it below its original length
C13_Witness ==
    /\ pc = "loop"
    /\ variant = "arxiv"
    /\ i = 2
    /\ Len(matches) = 3
    /\ Len(diagrams) = 1
    /\ Len(diagrams[1]) > matches[1].end - matches[1].start
    /\ offset < 0

C20_NoSpliceBeforeLastRender ==
    (variant \in {"plantuml", "mermaid"} /\ applied # <<>>) =>
        Len(rendered) = Len(matches)

\* the spans spliced during the first k iterations, in document order
RECURSIVE AppliedUpTo(_)
AppliedUpTo(k) ==
    IF k = 0 THEN <<>>
    ELSE AppliedUpTo(k - 1) \o (IF rendered[k] = "failed" THEN <<>> ELSE <<matches[k]>>)

\* C20 (amended): the replacements are not collected.  Each diagram is
\* rendered and, when the render succeeds, spliced at once, before the next
\* diagram is rendered: after i iterations the render calls of exactly the
\* first i diagrams have returned, the spans spliced are those of the first i
\* diagrams whose render did not fail, in document order, and the working
\* buffer is the original with the first i blocks resolved and every later
\* block untouched.
C20_SplicedAsRendered ==
    (variant \in {"plantuml", "mermaid"} /\ pc \in {"loop", "done"}) =>
        /\ Len(rendered) = i
        /\ applied = AppliedUpTo(i)
        /\ processed_content =
              SinglePassCopy(original, SubSeq(matches, 1, i), [k \in 1..i |-> NewText(k)])

\* C20 witness: the first of two diagrams has been rendered and spliced, the
\* render of the second has not started
C20_Witness ==
    /\ pc = "loop"
    /\ variant = "mermaid"
    /\ Len(matches) = 2
    /\ i = 1
    /\ rendered = <<"ok">>
    /\ applied = <<matches[1]>>
    /\ processed_content # original

(***************************************************************************)
(* wrap_bare_urls and the stripping steps of preprocess_content.           *)
(***************************************************************************)
\* C14 (as claimed): wrapping the result of wrap_bare_urls again changes
\* nothing.
C14_WrapIdempotent ==
    ppc = "done" => wrap_bare_urls(pre_content) = pre_content

\* C15: for every URL match, the wrapped URL followed by the tail is the
\* match, the tail consists of characters of the punctuation set, the
\* wrapped URL is not empty and does not end in a character of the set, and
\* in the output the match is replaced by marker, URL, closing brace, tail.
C15_TrailingPunctuationOutside ==
    ppc = "done" =>
        LET ms == FindUrls(pre_prev, 0)
            added == Len(WrapOpen) + Len(WrapClose)
        IN  \A k \in 1..Len(ms) :
                LET group1 == PySlice(pre_prev, ms[k].start, ms[k].end)
                    t == TrimUrl(group1, <<>>)
                IN  /\ t.url \o t.trailing = group1
                    /\ \A j \in 1..Len(t.trailing) : t.trailing[j] \in Punct
                    /\ t.url # <<>>
                    /\ t.url[Len(t.url)] \notin Punct
                    /\ PySlice(pre_content, ms[k].start + added * (k - 1),
                               ms[k].end + added * k)
                          = WrapOpen \o t.url \o WrapClose \o t.trailing

\* C15 witness: a wrapped URL that was followed by a full stop and a comma,
\* which stand in this order after the closing brace
C15_Witness ==
    /\ ppc = "done"
    /\ \E p \in 0..Len(pre_content) :
          IsAt(pre_content, p, WrapOpen \o <<"http://", "a">> \o WrapClose \o <<".", ",">>)
    /\ \E q \in 0..Len(pre_prev) :
          /\ IsAt(pre_prev, q, <<"http://", "a", ".", ",">>)
          /\ NotEnclosed(pre_prev, q)

\* the scheme at p is immediately preceded by (, [, {, a double quote, the
\* wrap marker or the opener of a markdown link
EnclosedAt(s, p) ==
    /\ p >= 1
    /\ \/ s[p] \in {"(", "[", "{", "\""}
       \/ IsAt(s, p - Len(WrapOpen), WrapOpen)
       \/ IsAt(s, p - 2, <<"]", "(">>)

\* C16 (as claimed): a URL whose scheme is immediately preceded by markup
\* is left unchanged: no wrap marker is inserted at its start or anywhere
\* inside it, that is, no replaced match starts within the URL.
C16_EnclosedUrlUnchanged ==
    ppc = "done" =>
        \A p \in 0..(Len(pre_prev) - 1) :
            (pre_prev[p + 1] \in Scheme /\ EnclosedAt(pre_prev, p)) =>
                LET ms == FindUrls(pre_prev, 0)
                IN  \A k \in 1..Len(ms) :
                        ~(p <= ms[k].start /\ ms[k].start < UrlEnd(pre_prev, p))

\* where the separator anchor of the script stands: the start of the buffer
\* (arxiv), or the opener of the author block after the title line, if any
AnchorStart(s) ==
    IF script = "arxiv" THEN 0 ELSE TitleEnd(s)

\* the separator anchor is present
AnchorPresent(s) ==
    /\ script # "arxiv" => IsAt(s, AnchorStart(s), AuthorAnchor)
    /\ \E c \in AnchorStart(s)..Len(s) : IsAt(s, c, Sep)

\* C17: when the front matter has been stripped, the content is the input
\* with one prefix deleted and nothing else changed: with the separator
\* anchor present the prefix ends with the first separator line after the
\* anchor (later separators stay); with no separator anchor at most the
\* title line is deleted, and nothing when the title anchor does not match.
C17_FrontMatterStrippedOnce ==
    ppc = "abstract" =>
        IF AnchorPresent(pre_input)
        THEN \E c \in AnchorStart(pre_input)..Len(pre_input) :
                /\ IsAt(pre_input, c, Sep)
                /\ \A d \in AnchorStart(pre_input)..(c - 1) : ~IsAt(pre_input, d, Sep)
                /\ pre_content = PyTail(pre_input, c + Len(Sep))
        ELSE IF script # "arxiv" /\ IsAt(pre_input, 0, TitleAnchor)
             THEN \/ pre_content = pre_input
                  \/ \E n \in 0..(Len(pre_input) - 1) :
                        /\ pre_input[n + 1] = "\n"
                        /\ \A d \in 0..(n - 1) : pre_input[d + 1] # "\n"
                        /\ pre_content = PyTail(pre_input, n + 1)
             ELSE pre_content = pre_input

\* C17 witness: build-arxiv-package stripped the front matter of a buffer
\* with two separator lines and text after each; the second one is still there
C17_Witness ==
    /\ ppc = "abstract"
    /\ script = "arxiv"
    /\ Len(pre_content) < Len(pre_input)
    /\ \E c \in 1..Len(pre_content) : IsAt(pre_content, c, Sep)
    /\ \E c \in 1..Len(pre_input) :
          /\ IsAt(pre_input, c, Sep)
          /\ pre_content = PyTail(pre_input, c + Len(Sep))

\* the number of hashes from position q on
RECURSIVE HashRun(_, _)
HashRun(s, q) == IF q < Len(s) /\ s[q + 1] = "#" THEN 1 + HashRun(s, q + 1) ELSE 0

\* the end of the section whose heading stands at p: the line feed before
\* the next heading of level 1 or 2, or the end of the buffer
SectionEnd(s, p) ==
    LET es == { e \in (p + 3)..(Len(s) - 1) : s[e + 1] = "\n" /\ HashRun(s, e + 1) \in {1, 2} }
    IN  IF es = {} THEN Len(s) ELSE CHOOSE e \in es : \A d \in es : e <= d

\* C18 (as claimed): when the buffer has one Abstract heading, the text from
\* that heading up to the next heading of level 1 or 2, or to the end of the
\* buffer, is removed, and nothing else.
C18_AbstractSectionRemoved ==
    (/\ ppc = "wrap"
     /\ Cardinality({ p \in 0..Len(pre_prev) : AbstractAt(pre_prev, p) }) = 1) =>
        LET p == CHOOSE x \in 0..Len(pre_prev) : AbstractAt(pre_prev, x)
        IN  pre_content = PyHead(pre_prev, p) \o PyTail(pre_prev, SectionEnd(pre_prev, p))

(***************************************************************************)
(* Which table entry and which label a block gets.                         *)
(***************************************************************************)
\* the image reference that carries title t and the file number k
LabelledRef(t, k) ==
    <<"![">> \o t \o <<"](diagrams/", "diagram_">> \o Str(k) \o <<".png", "){width=85%}">>

\* what block k (1-based) is to be resolved with: table entry k under label
\* k; past the table nothing (ascii, arxiv), the fixed placeholder
\* (plantuml), or the numbered default caption (mermaid); the block itself
\* where its render failed
EntryText(k) ==
    CASE variant \in {"ascii", "arxiv"} ->
            IF k <= Len(diagrams) THEN diagrams[k] ELSE <<>>
      [] variant = "plantuml" ->
            IF k > Len(diagrams) THEN <<"[Diagram placeholder]">>
            ELSE IF rendered[k] = "ok" THEN LabelledRef(diagrams[k], k)
            ELSE BlockText(original, matches[k])
      [] variant = "mermaid" ->
            IF rendered[k] # "ok" THEN BlockText(original, matches[k])
            ELSE IF k <= Len(diagrams) THEN LabelledRef(diagrams[k], k)
            ELSE LabelledRef(<<"Diagram ">> \o Str(k), k)

\* the length of what stands before block k once blocks 1..k-1 are resolved
RECURSIVE PlaceOf(_)
PlaceOf(k) ==
    IF k = 1 THEN matches[1].start
    ELSE PlaceOf(k - 1) + Len(EntryText(k - 1)) + (matches[k].start - matches[k - 1].end)

PatchText(k) == IF k <= Len(diagrams) THEN diagrams[k] ELSE <<"% removed mermaid block">>

\* the forward loop of the build scripts over spans ms from span k on,
\* with the running offset off
RECURSIVE ForwardLoop(_, _, _, _, _)
ForwardLoop(buf, ms, texts, off, k) ==
    IF k > Len(ms) THEN buf
    ELSE ForwardLoop(Spliced(buf, ms[k].start + off, ms[k].end + off, texts[k]),
                     ms, texts, NewOffset(off, texts[k], ms[k]), k + 1)

\* C22: when the end-to-beginning loop of patch-paper-tex has ended, the
\* buffer equals the single-pass copy of the original, and equals what the
\* forward loop with a running offset makes of the original, block idx
\* having received diagrams[idx], or the removal comment past the table.
C22_ReverseLoopEqualsForwardAndCopy ==
    (variant = "patch" /\ pc = "done") =>
        LET texts == [k \in 1..Len(matches) |-> PatchText(k)]
        IN  /\ content = SinglePassCopy(original, matches, texts)
            /\ content = ForwardLoop(original, matches, texts, 0, 1)

\* C22 witness: a finished run over two blocks with text between them and
\* a table of one entry, so that the first block got the entry and the
\* second the removal comment, both of another length than the block
C22_Witness ==
    /\ variant = "patch"
    /\ pc = "done"
    /\ Len(matches) = 2
    /\ Len(diagrams) = 1
    /\ matches[1].end < matches[2].start
    /\ \A k \in 1..2 : Len(PatchText(k)) # matches[k].end - matches[k].start
    /\ content # original

(***************************************************************************)
(* What wrap_bare_urls inserts.                                            *)
(***************************************************************************)
\* the number of characters of the punctuation set at the end of g
RECURSIVE TailLen(_)
TailLen(g) ==
    IF g # <<>> /\ g[Len(g)] \in {".", ",", ";", ":", "!", "?", ")"}
    THEN 1 + TailLen(SubSeq(g, 1, Len(g) - 1))
    ELSE 0

\* where, in the output made from s, the opening marker of match k of ms
\* stands, and where its closing brace stands
OpenAt(ms, k) == ms[k].start + (k - 1) * 6
CloseAt(s, ms, k) ==
    OpenAt(ms, k) + 5 + (ms[k].end - ms[k].start) - TailLen(PySlice(s, ms[k].start, ms[k].end))

\* out without the opening markers and the closing braces of matches 1..k
RECURSIVE WithoutMarkers(_, _, _, _)
WithoutMarkers(out, s, ms, k) ==
    IF k = 0 THEN out
    ELSE WithoutMarkers(PyHead(out, OpenAt(ms, k))
                            \o PySlice(out, OpenAt(ms, k) + 5, CloseAt(s, ms, k))
                            \o PyTail(out, CloseAt(s, ms, k) + 1),
                        s, ms, k - 1)

\* C23: the output of wrap_bare_urls holds, for each URL match in order, an
\* opening wrap marker before the URL and a closing brace after it; it is
\* longer than the input by exactly these insertions, and deleting them
\* yields the input.
C23_OnlyMarkersInserted ==
    ppc = "done" =>
        LET ms == FindUrls(pre_prev, 0)
        IN  /\ Len(pre_content) = Len(pre_prev) + 6 * Len(ms)
            /\ \A k \in 1..Len(ms) :
                  /\ IsAt(pre_content, OpenAt(ms, k), <<"\\", "u", "r", "l", "{">>)
                  /\ IsAt(pre_content, CloseAt(pre_prev, ms, k), <<"}">>)
            /\ WithoutMarkers(pre_content, pre_prev, ms, Len(ms)) = pre_prev

\* C23 witness: two URLs were wrapped, the first one followed by a comma
C23_Witness ==
    /\ ppc = "done"
    /\ Len(FindUrls(pre_prev, 0)) = 2
    /\ \E p \in 0..Len(pre_prev) : IsAt(pre_prev, p, <<"http://", "a", ",">>)
    /\ Len(pre_content) = Len(pre_prev) + 12

====
